---- MODULE Spec2Model ----
(***************************************************************************)
(* Model of touchable-fft/app.py: the Flask view WaveformAPI.post, which   *)
(* saves an uploaded audio file to a temporary path, decodes it with       *)
(* audioread, picks the middle decoder block and unpacks it with struct.   *)
(*                                                                         *)
(* The development server started by app.run(debug=True) serves one        *)
(* request at a time, so requests are modelled one after another; the      *)
(* temporary files and decoder handles they leave behind accumulate in     *)
(* tmpFiles and openHandles.  A program counter "Lnn" means that line nn   *)
(* of app.py is the next statement to run.                                 *)
(***************************************************************************)
EXTENDS Integers, Sequences, FiniteSets

\* ---------------------------------------------------------------- bounds

\* Number of requests served in one behaviour.
MaxRequests == 2

\* Largest number of blocks the decoder yields for one upload.
MaxBlocks == 2

\* ------------------------------------------------------- program constants

\* struct.unpack('2048h', ...): the count of the format string.
UnpackCount == 2048

\* struct format 'h': a signed short, two bytes.
SampleBytes == 2

\* Documented default of the sample_rate parameter; used as the decoded rate.
DefaultSampleRate == 44100

\* ------------------------------------------------------------- the inputs

\* The interpreter that runs the module: "/" on two ints floors under
\* Python 2 and yields a float under Python 3.
PyVersions == {2, 3}

\* Byte sizes a decoder block may have: exactly what '2048h' needs, or less.
BlockBytes == {UnpackCount * SampleBytes, UnpackCount}

RECURSIVE SeqsUpTo(_, _)
SeqsUpTo(S, n) ==
    IF n = 0 THEN {<<>>}
    ELSE LET shorter == SeqsUpTo(S, n - 1)
         IN  shorter \cup {Append(s, x) : s \in {t \in shorter : Len(t) = n - 1}, x \in S}

\* What the client puts in request.files: nothing, a zero-byte file, bytes no
\* backend recognises, or audio that decodes to the blocks of `sizes`
\* (`corrupt`: the decoder raises after yielding them).
NoFile == [kind |-> "none", sizes |-> <<>>, corrupt |-> FALSE]
EmptyFile == [kind |-> "empty", sizes |-> <<>>, corrupt |-> FALSE]
UnsupportedFile == [kind |-> "unsupported", sizes |-> <<>>, corrupt |-> FALSE]

AudioFiles ==
    {[kind |-> "audio", sizes |-> s, corrupt |-> c] :
        s \in SeqsUpTo(BlockBytes, MaxBlocks), c \in BOOLEAN}

Uploads == {NoFile, EmptyFile, UnsupportedFile} \cup AudioFiles

\* Values of the `length` form field the docstring documents for POST.
LengthParams == {-1, 0, UnpackCount}

\* ------------------------------------------------------------ the decoder

RECURSIVE SumBytes(_, _)
SumBytes(sizes, n) == IF n = 0 THEN 0 ELSE SumBytes(sizes, n - 1) + sizes[n]

\* The i-th block audio.read_data() yields: its position in the interleaved
\* sample stream and its size in bytes.
Block(u, i) == [off |-> SumBytes(u.sizes, i - 1) \div SampleBytes, bytes |-> u.sizes[i]]

\* Number of interleaved samples of the whole decoded stream.
TotalSamples(u) == SumBytes(u.sizes, Len(u.sizes)) \div SampleBytes

\* -------------------------------------------------------------- the state

VARIABLES
    py,              \* interpreter major version running the module
    reqId,           \* number of requests dispatched so far
    upload,          \* request.files of the current request
    lengthParam,     \* the `length` form field of the current request
    pc,              \* next line of post to run, or "idle"/"returned"/"raised"
    bound,           \* names bound in post's local scope
    path,            \* local `path` (identified by the uuid it was built from)
    audio,           \* local `audio`: the metadata of the opened decoder handle
    acc,             \* blocks list() has pulled from audio.read_data() so far
    middle_samples,  \* local `middle_samples`
    response,        \* what the request ended in
    tmpFiles,        \* files existing under /tmp/*.dat
    openHandles,     \* decoder handles opened and not closed
    prev             \* input and response of the previous request

vars == <<py, reqId, upload, lengthParam, pc, bound, path, audio, acc,
          middle_samples, response, tmpFiles, openHandles, prev>>

NoAudio == [channels |-> 0, samplerate |-> 0]
NoBlock == [off |-> 0, bytes |-> 0]
NoSamples == [off |-> 0, n |-> 0]
NoResponse ==
    [kind |-> "none", exc |-> "", args |-> <<>>, samples |-> NoSamples,
     size |-> 0, channels |-> 0, samplerate |-> 0]
NoPrev ==
    [reqId |-> 0, upload |-> NoFile, lengthParam |-> 0, path |-> 0,
     response |-> NoResponse]

\* An exception leaving post: the handler has no try/except, so it reaches
\* the framework, which answers with an HTTP error page.
Raised(exc, args) == [NoResponse EXCEPT !.kind = "exception", !.exc = exc, !.args = args]

\* render_json of the dict built at the return statement.
render_json(decoded_samples, a) ==
    [NoResponse EXCEPT !.kind = "result", !.samples = decoded_samples,
                       !.size = decoded_samples.n, !.channels = a.channels,
                       !.samplerate = a.samplerate]

\* Names defined at module level (imports and definitions of app.py).
ModuleNames ==
    {"json", "Flask", "Response", "request", "render_template", "MethodView",
     "audio_open", "struct", "uuid", "app", "render_json", "index",
     "WaveformAPI", "waveform_view"}

\* uuid4: a value no earlier request drew.
uuid == reqId

\* The name the unpack statement reads.
FixedName == "middle_samples"
ReferencedName == "middle_sample"

\* Arguments of the exception audio_open raises for an undecodable file.
OpenErrorArgsWithPath(p) == <<p>>
OpenErrorArgs(p) == <<>>

\* The block list() pulls after having pulled n blocks.
LastBlockFirst(u, n) == Block(u, Len(u.sizes) - n)
NextBlock(u, n) == Block(u, n + 1)

\* The index expression len(buffers) / 2 and what indexing with it does.
FloorHalf(n) == n \div 2

Finished == pc \in {"returned", "raised"}

Fail(exc, args) ==
    /\ pc' = "raised"
    /\ response' = Raised(exc, args)

\* --------------------------------------------------------------- actions

Init ==
    /\ py \in PyVersions
    /\ reqId = 0
    /\ upload = NoFile
    /\ lengthParam = 0
    /\ pc = "idle"
    /\ bound = {}
    /\ path = 0
    /\ audio = NoAudio
    /\ acc = <<>>
    /\ middle_samples = NoBlock
    /\ response = NoResponse
    /\ tmpFiles = {}
    /\ openHandles = {}
    /\ prev = NoPrev

\* The route '/waveform/sample' with method POST enters post with fresh locals.
Dispatch ==
    /\ pc = "idle" \/ Finished
    /\ reqId < MaxRequests
    /\ reqId' = reqId + 1
    /\ \E u \in Uploads, l \in LengthParams :
          /\ upload' = u
          /\ lengthParam' = l
    /\ prev' = IF Finished
               THEN [reqId |-> reqId, upload |-> upload, lengthParam |-> lengthParam,
                     path |-> path, response |-> response]
               ELSE prev
    /\ pc' = "L56"
    /\ bound' = {}
    /\ path' = 0
    /\ audio' = NoAudio
    /\ acc' = <<>>
    /\ middle_samples' = NoBlock
    /\ response' = NoResponse
    /\ UNCHANGED <<py, tmpFiles, openHandles>>

\* audio_file = request.files['file']
Line56 ==
    /\ pc = "L56"
    /\ IF upload.kind = "none"
       THEN /\ Fail("BadRequestKeyError", <<>>)
            /\ UNCHANGED bound
       ELSE /\ pc' = "L57"
            /\ bound' = bound \cup {"audio_file"}
            /\ UNCHANGED response
    /\ UNCHANGED <<py, reqId, upload, lengthParam, path, audio, acc,
                   middle_samples, tmpFiles, openHandles, prev>>

\* path = '/tmp/%s.dat' % str(uuid())
Line57 ==
    /\ pc = "L57"
    /\ path' = uuid
    /\ bound' = bound \cup {"path"}
    /\ pc' = "L58"
    /\ UNCHANGED <<py, reqId, upload, lengthParam, audio, acc, middle_samples,
                   response, tmpFiles, openHandles, prev>>

\* audio_file.save(path)
Line58 ==
    /\ pc = "L58"
    /\ tmpFiles' = tmpFiles \cup {path}
    /\ pc' = "L59"
    /\ UNCHANGED <<py, reqId, upload, lengthParam, bound, path, audio, acc,
                   middle_samples, response, openHandles, prev>>

\* audio = audio_open(path)
Line59 ==
    /\ pc = "L59"
    /\ IF path \notin tmpFiles
       THEN /\ Fail("IOError", <<path>>)
            /\ UNCHANGED <<bound, audio, openHandles>>
       ELSE IF upload.kind # "audio"
       THEN /\ Fail("DecodeError", OpenErrorArgs(path))
            /\ UNCHANGED <<bound, audio, openHandles>>
       ELSE /\ audio' = [channels |-> 2, samplerate |-> DefaultSampleRate]
            /\ openHandles' = openHandles \cup {path}
            /\ bound' = bound \cup {"audio"}
            /\ pc' = "L60"
            /\ UNCHANGED response
    /\ UNCHANGED <<py, reqId, upload, lengthParam, path, acc, middle_samples,
                   tmpFiles, prev>>

\* buffers = list(audio.read_data()): one step per block pulled, then the
\* end of the stream (or the decoder's failure) ends the statement.
Line60 ==
    /\ pc = "L60"
    /\ IF Len(acc) < Len(upload.sizes)
       THEN /\ acc' = Append(acc, NextBlock(upload, Len(acc)))
            /\ UNCHANGED <<pc, bound, response>>
       ELSE IF upload.corrupt
       THEN /\ Fail("DecodeError", <<>>)
            /\ UNCHANGED <<acc, bound>>
       ELSE /\ bound' = bound \cup {"buffers"}
            /\ pc' = "L61"
            /\ UNCHANGED <<acc, response>>
    /\ UNCHANGED <<py, reqId, upload, lengthParam, path, audio, middle_samples,
                   tmpFiles, openHandles, prev>>

\* middle_samples = buffers[ len(buffers) / 2 ]
Line61 ==
    /\ pc = "L61"
    /\ IF py = 3
       THEN /\ Fail("TypeError", <<>>)
            /\ UNCHANGED <<bound, middle_samples>>
       ELSE IF FloorHalf(Len(acc)) + 1 > Len(acc)
       THEN /\ Fail("IndexError", <<>>)
            /\ UNCHANGED <<bound, middle_samples>>
       ELSE /\ middle_samples' = acc[FloorHalf(Len(acc)) + 1]
            /\ bound' = bound \cup {"middle_samples"}
            /\ pc' = "L62"
            /\ UNCHANGED response
    /\ UNCHANGED <<py, reqId, upload, lengthParam, path, audio, acc, tmpFiles,
                   openHandles, prev>>

\* decoded_samples = struct.unpack('2048h', middle_sample), then the return
\* of render_json({...}).
Line62 ==
    /\ pc = "L62"
    /\ IF ReferencedName \notin bound \cup ModuleNames
       THEN Fail("NameError", <<>>)
       ELSE IF ReferencedName # "middle_samples"
       THEN Fail("TypeError", <<>>)
       ELSE IF middle_samples.bytes # UnpackCount * SampleBytes
       THEN Fail("struct.error", <<>>)
       ELSE /\ pc' = "returned"
            /\ response' = render_json([off |-> middle_samples.off, n |-> UnpackCount],
                                       audio)
    /\ UNCHANGED <<py, reqId, upload, lengthParam, bound, path, audio, acc,
                   middle_samples, tmpFiles, openHandles, prev>>

Next ==
    \/ Dispatch
    \/ Line56
    \/ Line57
    \/ Line58
    \/ Line59
    \/ Line60
    \/ Line61
    \/ Line62

Spec == Init /\ [][Next]_vars

\* ------------------------------------------------------ derived notions

Max(a, b) == IF a >= b THEN a ELSE b
Min(a, b) == IF a <= b THEN a ELSE b

\* The per-request state of the pipeline, read off the program counter.
Phase ==
    CASE pc \in {"idle", "L56", "L57", "L58"} -> "Idle"
      [] pc = "L59" -> "SourceAcquired"
      [] pc = "L60" -> "Decoding"
      [] pc \in {"L61", "L62"} -> "Extracting"
      [] pc = "returned" -> "Done"
      [] pc = "raised" -> "Failed"

PhaseRank(ph) ==
    CASE ph = "Idle" -> 0
      [] ph = "SourceAcquired" -> 1
      [] ph = "Decoding" -> 2
      [] ph = "Extracting" -> 3
      [] ph = "Done" -> 4
      [] ph = "Failed" -> 5

\* The dict returned by post has no 'truncated' key.
Truncated(r) == FALSE

\* The error kinds of the intended taxonomy.
Taxonomy ==
    {"UnsupportedFormat", "CorruptStream", "EmptySource", "EmptyStream",
     "InvalidParameter", "IOFailure"}

TypedError(r, kind) == r.kind = "error" /\ r.exc = kind

\* An upload that decodes without failure to at least one sample.
ValidAudio(u) == u.kind = "audio" /\ ~u.corrupt /\ TotalSamples(u) > 0

\* A finished request on valid audio with a valid length.
ValidRequestFinished == Finished /\ ValidAudio(upload) /\ lengthParam > 0

\* ----------------------------------------------------------------- claims

\* C1: for every valid audio input and requested length the request yields a
\* non-error Result with size(samples) <= length, size(samples) = length
\* unless truncated, and size equal to the number of samples returned.
C1_SizeWithinLength ==
    ValidRequestFinished =>
        /\ response.kind = "result"
        /\ response.size <= lengthParam
        /\ (~Truncated(response) => response.size = lengthParam)
        /\ response.size = response.samples.n

\* C2: the returned window is the contiguous slice of the decoded stream that
\* starts at max(0, floor((total_samples - length) / 2)), whatever the blocks.
C2_WindowAtSampleMidpoint ==
    ValidRequestFinished =>
        /\ response.kind = "result"
        /\ response.samples.off = Max(0, (TotalSamples(upload) - lengthParam) \div 2)
        /\ response.samples.n = Min(lengthParam, TotalSamples(upload))

\* C3: a stream with fewer samples than the requested length (and at least
\* one) ends in a non-error Result holding all samples, marked truncated.
C3_ShortStreamTruncated ==
    (ValidRequestFinished /\ TotalSamples(upload) < lengthParam) =>
        /\ response.kind = "result"
        /\ Truncated(response)
        /\ response.samples = [off |-> 0, n |-> TotalSamples(upload)]
        /\ response.size < lengthParam

\* C4: a request (carrying a file) whose length is 0 or negative ends in
\* InvalidParameter and never opens the audio source or reads a block.
C4_InvalidLengthRejectedBeforeDecode ==
    (reqId > 0 /\ upload.kind # "none" /\ lengthParam <= 0) =>
        /\ "audio" \notin bound
        /\ acc = <<>>
        /\ pc \notin {"L60", "L61", "L62"}
        /\ (Finished => TypedError(response, "InvalidParameter"))

\* C5: a zero-byte input ends in the typed error EmptySource and a stream of
\* zero decoded blocks in EmptyStream, never in a Result.
C5_EmptyInputTypedError ==
    (Finished /\ lengthParam > 0) =>
        /\ (upload.kind = "empty" => TypedError(response, "EmptySource"))
        /\ (upload.kind = "audio" /\ ~upload.corrupt /\ upload.sizes = <<>>
               => TypedError(response, "EmptyStream"))

\* C6: every failure raised while opening, decoding or extracting is caught
\* by the handler and turned into a typed error of the taxonomy; no request
\* ends with an exception leaving the handler, and no failing request
\* returns samples.
C6_FailuresBecomeTypedErrors ==
    (Finished /\ "path" \in bound) =>
        /\ response.kind \in {"result", "error"}
        /\ (response.kind = "error" =>
               response.exc \in Taxonomy /\ response.samples = NoSamples)

\* C7: once a request has finished, its decoder handle is closed and its
\* temporary file is gone: no resource is held between requests.
C7_ResourcesReleased ==
    Finished => tmpFiles = {} /\ openHandles = {}

C9_StateOK ==
    \* blocks are pulled in stream order, each once
    /\ Len(acc) <= Len(upload.sizes)
    /\ \A i \in 1..Len(acc) : acc[i] = Block(upload, i)
    \* extraction starts with the metadata at hand and the stream drained
    /\ Phase = "Extracting" =>
          /\ "audio" \in bound
          /\ audio.channels >= 1 /\ audio.samplerate > 0
          /\ Len(acc) = Len(upload.sizes)
    /\ Phase \in {"Idle", "SourceAcquired"} => acc = <<>>

C9_StepOK ==
    reqId' = reqId =>
        /\ \/ Phase' = Phase
           \/ Phase \notin {"Done", "Failed"} /\ Phase' = "Failed"
           \/ Phase \notin {"Done", "Failed"} /\ PhaseRank(Phase') = PhaseRank(Phase) + 1
        /\ \/ acc' = acc
           \/ Phase = "Decoding" /\ acc' = Append(acc, Block(upload, Len(acc) + 1))

\* C9: a request moves through Idle, SourceAcquired, Decoding, Extracting,
\* Done in that order or to Failed; Done and Failed are terminal, no earlier
\* state is re-entered, metadata is available before extraction, and blocks
\* are consumed in stream order exactly once.
C9_PhasesInOrder == [](C9_StateOK) /\ [][C9_StepOK]_vars

\* A request that went through every phase up to Extracting, after pulling
\* two blocks, and then failed.
C9_Witness ==
    /\ pc = "raised"
    /\ "middle_samples" \in bound
    /\ Len(acc) >= 2
    /\ acc[1] # acc[2]

\* C10: post selects one whole decoder block by the list index
\* len(buffers)/2 and then reads an undefined name: every execution that gets
\* past the block selection ends in NameError, and none returns a Result.
C10_NoResultReturned ==
    /\ pc # "returned"
    /\ response.kind # "result"
    /\ "middle_samples" \in bound =>
          /\ middle_samples = Block(upload, (Len(upload.sizes) \div 2) + 1)
          /\ (Finished => response = Raised("NameError", <<>>))

\* A request whose selected block is a whole block of two, not the slice at
\* the sample midpoint, ended by the NameError.
C10_Witness ==
    /\ pc = "raised"
    /\ response.exc = "NameError"
    /\ "middle_samples" \in bound
    /\ Len(acc) = 2
    /\ middle_samples = acc[2]
    /\ middle_samples.bytes = UnpackCount * SampleBytes
    /\ middle_samples.off # Max(0, (TotalSamples(upload) - UnpackCount) \div 2)

====
